---- MODULE Spec2Model ----
(***************************************************************************)
(* A model of the ML Lambda placeholder handler of                         *)
(* packages/ml-engine/src/index.py.                                        *)
(*                                                                         *)
(* Python values are records tagged by k.  The content of a Python str     *)
(* is a sequence of lexemes, so that JSON text is something json.loads     *)
(* has to parse and json.dumps has to produce: a serialized body is never  *)
(* the value it encodes.                                                   *)
(***************************************************************************)
EXTENDS Integers, Sequences, FiniteSets, TLC

\* Largest reading of the wall clock, in clock units.
MaxClock == 2
\* Clock units per millisecond (the granularity at which time.time() is read).
Resolution == 2

(***************************************************************************)
(* Python values                                                           *)
(***************************************************************************)
None == [k |-> "none"]
BoolV(b) == [k |-> "bool", b |-> b]
IntV(n) == [k |-> "int", n |-> n]
\* A float, in tenths: FloatV(5) is 0.5.
FloatV(t) == [k |-> "float", n |-> t]
\* A str whose content is the lexeme sequence s.
Str(s) == [k |-> "str", text |-> s]
List(xs) == [k |-> "list", elems |-> xs]
\* A dict: its items in insertion order, keys unique, each <<key, value>>
\* with the key the content of a str.
Dict(items) == [k |-> "dict", items |-> items]
\* A Python object json cannot serialize (a set, a bytes, ...).
PyObj == [k |-> "pyobj"]

(***************************************************************************)
(* Lexemes of text                                                         *)
(***************************************************************************)
\* Punctuation of JSON: one of { } [ ] : ,
P(c) == [t |-> "p", c |-> c]
\* A run of plain characters (a word, a message, a ExampleUrl).
W(s) == [t |-> "w", c |-> s]
\* A quoted JSON string literal with the content c.
Q(c) == [t |-> "q", text |-> c]
\* An integer literal, and a literal with a decimal point (in tenths).
NumInt(n) == [t |-> "int", n |-> n]
NumFloat(n) == [t |-> "float", n |-> n]

\* The str "s" of plain characters, and a dict key.
Text(s) == Str(<<W(s)>>)
Key(s) == <<W(s)>>

(***************************************************************************)
(* dict access                                                             *)
(***************************************************************************)
HasKey(d, key) == \E j \in 1..Len(d.items) : d.items[j][1] = Key(key)

\* dict.get(key): the value, or None when the key is absent.
Get(d, key) ==
    IF HasKey(d, key)
    THEN d.items[CHOOSE j \in 1..Len(d.items) : d.items[j][1] = Key(key)][2]
    ELSE None

\* d[key] = val on the item sequence: a repeated key keeps its place and
\* takes the last value.
Put(items, key, val) ==
    IF \E j \in 1..Len(items) : items[j][1] = key
    THEN [j \in 1..Len(items) |->
             IF items[j][1] = key THEN <<key, val>> ELSE items[j]]
    ELSE Append(items, <<key, val>>)

\* Python's truth value of an object (the operand of `not`).
Truthy(x) ==
    CASE x.k = "none" -> FALSE
      [] x.k = "bool" -> x.b
      [] x.k = "int" -> x.n # 0
      [] x.k = "float" -> x.n # 0
      [] x.k = "str" -> x.text # <<>>
      [] x.k = "list" -> x.elems # <<>>
      [] x.k = "dict" -> x.items # <<>>
      [] OTHER -> TRUE

(***************************************************************************)
(* json.loads: a recursive-descent parse of a lexeme sequence              *)
(***************************************************************************)
ParseFail == [ok |-> FALSE, val |-> None, rest |-> <<>>]
ParseOk(val, rest) == [ok |-> TRUE, val |-> val, rest |-> rest]

RECURSIVE ParseValue(_)
RECURSIVE ParseMembers(_, _)
RECURSIVE ParseElements(_, _)

\* After "{" and zero or more members: key ":" value, then "," or "}".
ParseMembers(ts, acc) ==
    IF Len(ts) < 2 \/ ts[1].t # "q" \/ ts[2] # P(":")
    THEN ParseFail
    ELSE LET m == ParseValue(SubSeq(ts, 3, Len(ts)))
         IN  IF ~m.ok \/ m.rest = <<>>
             THEN ParseFail
             ELSE LET items == Put(acc, ts[1].text, m.val)
                      sep == Head(m.rest)
                  IN  IF sep = P("}")
                      THEN ParseOk(Dict(items), Tail(m.rest))
                      ELSE IF sep = P(",")
                      THEN ParseMembers(Tail(m.rest), items)
                      ELSE ParseFail

\* After "[" and zero or more elements: value, then "," or "]".
ParseElements(ts, acc) ==
    LET m == ParseValue(ts)
    IN  IF ~m.ok \/ m.rest = <<>>
        THEN ParseFail
        ELSE LET xs == Append(acc, m.val)
                 sep == Head(m.rest)
             IN  IF sep = P("]")
                 THEN ParseOk(List(xs), Tail(m.rest))
                 ELSE IF sep = P(",")
                 THEN ParseElements(Tail(m.rest), xs)
                 ELSE ParseFail

ParseValue(ts) ==
    IF ts = <<>>
    THEN ParseFail
    ELSE LET h == Head(ts)
             r == Tail(ts)
         IN  CASE h.t = "q" -> ParseOk(Str(h.text), r)
               [] h.t = "int" -> ParseOk(IntV(h.n), r)
               [] h.t = "float" -> ParseOk(FloatV(h.n), r)
               [] h.t = "w" ->
                    IF h.c = "null" THEN ParseOk(None, r)
                    ELSE IF h.c = "true" THEN ParseOk(BoolV(TRUE), r)
                    ELSE IF h.c = "false" THEN ParseOk(BoolV(FALSE), r)
                    ELSE ParseFail
               [] h.t = "p" ->
                    IF h.c = "{"
                    THEN IF r # <<>> /\ Head(r) = P("}")
                         THEN ParseOk(Dict(<<>>), Tail(r))
                         ELSE ParseMembers(r, <<>>)
                    ELSE IF h.c = "["
                    THEN IF r # <<>> /\ Head(r) = P("]")
                         THEN ParseOk(List(<<>>), Tail(r))
                         ELSE ParseElements(r, <<>>)
                    ELSE ParseFail
               [] OTHER -> ParseFail

\* json.loads(s) of the str content s: [ok, val]; ~ok is a JSONDecodeError
\* (no value, or data after the value).
Loads(s) ==
    LET m == ParseValue(s)
    IN  IF m.ok /\ m.rest = <<>>
        THEN [ok |-> TRUE, val |-> m.val]
        ELSE [ok |-> FALSE, val |-> None]

(***************************************************************************)
(* json.dumps                                                              *)
(***************************************************************************)
DumpFail == [ok |-> FALSE, text |-> <<>>]
DumpOk(text) == [ok |-> TRUE, text |-> text]

RECURSIVE Dumps(_)
RECURSIVE DumpItems(_, _)
RECURSIVE DumpElements(_, _)

\* The members of a dict from item j on, "," between them.
DumpItems(items, j) ==
    IF j > Len(items)
    THEN DumpOk(<<>>)
    ELSE LET one == Dumps(items[j][2])
             more == DumpItems(items, j + 1)
         IN  IF ~one.ok \/ ~more.ok
             THEN DumpFail
             ELSE DumpOk(<<Q(items[j][1]), P(":")>> \o one.text
                         \o (IF j < Len(items) THEN <<P(",")>> ELSE <<>>)
                         \o more.text)

DumpElements(xs, j) ==
    IF j > Len(xs)
    THEN DumpOk(<<>>)
    ELSE LET one == Dumps(xs[j])
             more == DumpElements(xs, j + 1)
         IN  IF ~one.ok \/ ~more.ok
             THEN DumpFail
             ELSE DumpOk(one.text
                         \o (IF j < Len(xs) THEN <<P(",")>> ELSE <<>>)
                         \o more.text)

\* json.dumps(x): [ok, text]; ~ok is the TypeError "Object of type ... is
\* not JSON serializable".
Dumps(x) ==
    CASE x.k = "none" -> DumpOk(<<W("null")>>)
      [] x.k = "bool" -> DumpOk(<<W(IF x.b THEN "true" ELSE "false")>>)
      [] x.k = "int" -> DumpOk(<<NumInt(x.n)>>)
      [] x.k = "float" -> DumpOk(<<NumFloat(x.n)>>)
      [] x.k = "str" -> DumpOk(<<Q(x.text)>>)
      [] x.k = "list" ->
           LET m == DumpElements(x.elems, 1)
           IN  IF m.ok THEN DumpOk(<<P("[")>> \o m.text \o <<P("]")>>)
               ELSE DumpFail
      [] x.k = "dict" ->
           LET m == DumpItems(x.items, 1)
           IN  IF m.ok THEN DumpOk(<<P("{")>> \o m.text \o <<P("}")>>)
               ELSE DumpFail
      [] OTHER -> DumpFail

(***************************************************************************)
(* Exceptions                                                              *)
(***************************************************************************)
Exc(type, msg) == [type |-> type, msg |-> <<W(msg)>>]
NoExc == [type |-> "", msg |-> <<>>]

\* str(e)
StrOf(e) == Str(e.msg)

\* type(x).__name__
TypeName(x) ==
    CASE x.k = "none" -> "NoneType"
      [] x.k = "bool" -> "bool"
      [] x.k = "int" -> "int"
      [] x.k = "float" -> "float"
      [] x.k = "str" -> "str"
      [] x.k = "list" -> "list"
      [] OTHER -> "object"

\* x.get on an object that has no such attribute.
NoGet(x) ==
    [type |-> "AttributeError",
     msg |-> <<W("'"), W(TypeName(x)), W("' object has no attribute 'get'")>>]
\* json.loads on text that is no JSON document.
DecodeError == Exc("JSONDecodeError", "Expecting value: line 1 column 1 (char 0)")
\* json.dumps on an object json has no encoding for.
NotSerializable == Exc("TypeError", "Object of type set is not JSON serializable")
\* print on a standard output that refuses the write.
WriteError == Exc("BrokenPipeError", "[Errno 32] Broken pipe")

(***************************************************************************)
(* The statements of handler                                               *)
(***************************************************************************)
Value(x) == [ok |-> TRUE, val |-> x, exc |-> NoExc]
Throw(e) == [ok |-> FALSE, val |-> None, exc |-> e]

\* Line 42: the body the fields are read from.  The lenient variant also
\* reads a body that is already a dict, and falls back to the event when
\* the decoded body lacks the fields.
ResolveBodyLenient(ev) ==
    IF ev.k # "dict"
    THEN Throw(NoGet(ev))
    ELSE IF Get(ev, "body").k = "str"
    THEN LET r == Loads(Get(ev, "body").text)
         IN  IF ~r.ok THEN Throw(DecodeError)
             ELSE IF r.val.k = "dict" /\ ~HasKey(r.val, "url")
                     /\ ~HasKey(r.val, "domain")
             THEN Value(ev)
             ELSE Value(r.val)
    ELSE IF Get(ev, "body").k = "dict"
    THEN Value(Get(ev, "body"))
    ELSE Value(ev)

ResolveBody(ev) ==
    IF ev.k # "dict"
    THEN Throw(NoGet(ev))
    ELSE IF Get(ev, "body").k = "str"
    THEN LET r == Loads(Get(ev, "body").text)
         IN  IF r.ok THEN Value(r.val) ELSE Throw(DecodeError)
    ELSE Value(ev)

\* Lines 43-44: body.get(key).
Field(body, key) ==
    IF body.k = "dict" THEN Value(Get(body, key)) ELSE Throw(NoGet(body))

\* Line 46: not url or not domain.  The strict variant rejects only None.
MissingOnlyNone(url, domain) == url = None \/ domain = None

Missing(url, domain) == ~Truthy(url) \/ ~Truthy(domain)

JsonHeaders == Dict(<< <<Key("Content-Type"), Text("application/json")>> >>)

\* Lines 47-50: the validation response.
BadRequest ==
    Dict(<< <<Key("statusCode"), IntV(400)>>,
            <<Key("body"),
              Str(Dumps(Dict(<< <<Key("error"),
                                  Text("url and domain are required")>> >>)).text)>> >>)

\* int(x) of x = n / d: truncation toward zero.
Trunc(n, d) == IF n >= 0 THEN n \div d ELSE -((-n) \div d)

\* Lines 59 and 85: int((time.time() - start_time) * 1000), the two readings
\* in clock units.
Elapsed(start, now) == Trunc(now - start, Resolution)

Threats ==
    Dict(<< <<Key("phishing"), FloatV(5)>>,
            <<Key("malware"), FloatV(0)>>,
            <<Key("social"), FloatV(0)>> >>)

\* Lines 61-73: the placeholder response.  The variants: one with a score
\* out of range and a source outside the enumeration, one whose score
\* depends on the time taken, one without the model version.
PlaceholderOutOfRange(processing_time) ==
    Dict(<< <<Key("riskScore"), FloatV(15)>>,
            <<Key("threats"), Threats>>,
            <<Key("confidence"), FloatV(0)>>,
            <<Key("source"), Text("placeholder")>>,
            <<Key("modelVersion"), Text("placeholder-v0.1.0")>>,
            <<Key("processingTime"), processing_time>>,
            <<Key("message"),
              Text("Placeholder ML response - ML team needs to implement actual model")>> >>)

PlaceholderTimed(processing_time) ==
    Dict(<< <<Key("riskScore"), IF processing_time.n > 0 THEN FloatV(6) ELSE FloatV(5)>>,
            <<Key("threats"), Threats>>,
            <<Key("confidence"), FloatV(0)>>,
            <<Key("source"), Text("fallback")>>,
            <<Key("modelVersion"), Text("placeholder-v0.1.0")>>,
            <<Key("processingTime"), processing_time>>,
            <<Key("message"),
              Text("Placeholder ML response - ML team needs to implement actual model")>> >>)

PlaceholderNoVersion(processing_time) ==
    Dict(<< <<Key("riskScore"), FloatV(5)>>,
            <<Key("threats"), Threats>>,
            <<Key("confidence"), FloatV(0)>>,
            <<Key("source"), Text("fallback")>>,
            <<Key("processingTime"), processing_time>>,
            <<Key("message"),
              Text("Placeholder ML response - ML team needs to implement actual model")>> >>)

PlaceholderResponse(processing_time) ==
    Dict(<< <<Key("riskScore"), FloatV(5)>>,
            <<Key("threats"), Threats>>,
            <<Key("confidence"), FloatV(0)>>,
            <<Key("source"), Text("fallback")>>,
            <<Key("modelVersion"), Text("placeholder-v0.1.0")>>,
            <<Key("processingTime"), processing_time>>,
            <<Key("message"),
              Text("Placeholder ML response - ML team needs to implement actual model")>> >>)

\* Lines 77-81.
OkEnvelope(response) ==
    Dict(<< <<Key("statusCode"), IntV(200)>>,
            <<Key("headers"), JsonHeaders>>,
            <<Key("body"), Str(Dumps(response).text)>> >>)

\* Lines 87-99.
FallbackEnvelope(processing_time, e) ==
    Dict(<< <<Key("statusCode"), IntV(500)>>,
            <<Key("headers"), JsonHeaders>>,
            <<Key("body"),
              Str(Dumps(Dict(<< <<Key("riskScore"), FloatV(5)>>,
                                <<Key("threats"), Threats>>,
                                <<Key("confidence"), FloatV(0)>>,
                                <<Key("source"), Text("fallback")>>,
                                <<Key("modelVersion"), Text("error")>>,
                                <<Key("processingTime"), processing_time>>,
                                <<Key("error"), StrOf(e)>> >>)).text)>> >>)

(***************************************************************************)
(* The events handler is invoked with                                      *)
(***************************************************************************)
Absent == [k |-> "absent"]
Opt(key, x) == IF x = Absent THEN <<>> ELSE << <<Key(key), x>> >>

\* The event {"body": b, "url": u, "domain": d, "metadata": m}, a field
\* left out when it is Absent.
MkEvent(b, u, d, m) ==
    Dict(Opt("body", b) \o Opt("url", u) \o Opt("domain", d) \o Opt("metadata", m))

ExampleUrl == Text("https://example.com")
ExampleDomain == Text("example.com")

\* The text json.dumps gives for {"url": u, "domain": d}.
BodyText(u, d) == Dumps(MkEvent(Absent, u, d, Absent)).text

\* String bodies that decode to a mapping.
MappingTexts ==
    { <<P("{"), P("}")>>,
      BodyText(ExampleUrl, ExampleDomain),
      BodyText(ExampleUrl, Absent),
      BodyText(Absent, ExampleDomain),
      BodyText(Str(<<>>), ExampleDomain),
      BodyText(ExampleUrl, None),
      BodyText(IntV(7), BoolV(TRUE)),
      BodyText(IntV(0), ExampleDomain),
      \* a repeated key: the last value stands
      <<P("{"), Q(Key("url")), P(":"), Q(ExampleUrl.text), P(","),
        Q(Key("domain")), P(":"), Q(ExampleDomain.text), P(","),
        Q(Key("url")), P(":"), Q(<<>>), P("}")>> }

\* String bodies that decode to something else.
NonMappingTexts ==
    { <<P("["), P("]")>>,
      <<P("["), Q(ExampleUrl.text), P(","), Q(ExampleDomain.text), P("]")>>,
      <<W("null")>>,
      <<NumInt(7)>>,
      <<Q(ExampleUrl.text)>> }

\* String bodies that are no JSON document.
MalformedTexts ==
    { <<>>,
      <<P("{")>>,
      <<W("url=https://example.com")>>,
      <<P("{"), Q(Key("url")), P(":"), Q(ExampleUrl.text), P(","), P("}")>>,
      BodyText(ExampleUrl, ExampleDomain) \o <<P("}")>> }

BodyTexts == MappingTexts \cup NonMappingTexts \cup MalformedTexts

TopValues == {Absent, None, Str(<<>>)}

\* A mapping with the fields directly.
DirectEvents ==
    { MkEvent(Absent, u, d, Absent) :
        u \in TopValues \cup {ExampleUrl}, d \in TopValues \cup {ExampleDomain} }
    \cup { MkEvent(Absent, IntV(7), BoolV(TRUE), Absent),
           MkEvent(Absent, IntV(0), ExampleDomain, Absent),
           MkEvent(Absent, ExampleUrl, List(<<>>), Absent),
           MkEvent(Absent, ExampleUrl, ExampleDomain, Dict(<< <<Key("referrer"), ExampleUrl>> >>)) }

\* A mapping with a string body, with and without fields beside it.
StringBodyEvents ==
    { MkEvent(Str(t), Absent, Absent, Absent) : t \in BodyTexts }
    \cup { MkEvent(Str(t), ExampleUrl, ExampleDomain, Absent) : t \in BodyTexts }

\* A mapping whose body is no string.
OtherBodyEvents ==
    LET structured == MkEvent(Absent, ExampleUrl, ExampleDomain, Absent)
    IN  { MkEvent(b, Absent, Absent, Absent) : b \in {None, IntV(1), structured} }
        \cup { MkEvent(b, ExampleUrl, ExampleDomain, Absent) :
                  b \in {None, IntV(1), structured} }

\* An event that is no mapping.
NonMappingEvents == {None, List(<<>>), Text("ping"), IntV(5)}

\* A mapping json.dumps cannot serialize.
UnserializableEvents ==
    { MkEvent(Absent, ExampleUrl, ExampleDomain, PyObj),
      MkEvent(Absent, Absent, Absent, PyObj),
      MkEvent(Str(BodyText(ExampleUrl, ExampleDomain)), Absent, Absent, PyObj) }

Events ==
    DirectEvents \cup StringBodyEvents \cup OtherBodyEvents
    \cup NonMappingEvents \cup UnserializableEvents

\* The events of the runs with two concurrent invocations.
PairEvents ==
    { MkEvent(Absent, ExampleUrl, ExampleDomain, Absent),
      MkEvent(Str(BodyText(ExampleUrl, ExampleDomain)), Absent, Absent, Absent),
      MkEvent(Absent, ExampleUrl, Absent, Absent),
      MkEvent(Str(<<P("{")>>), Absent, Absent, Absent),
      MkEvent(Str(<<P("{"), P("}")>>), ExampleUrl, ExampleDomain, Absent),
      List(<<>>),
      MkEvent(Absent, ExampleUrl, ExampleDomain, PyObj) }

Clock == 0..MaxClock

(***************************************************************************)
(* State                                                                   *)
(***************************************************************************)
\* The execution contexts handler runs in, each one invocation at a time.
Contexts == {"c1", "c2"}

VARIABLES
    pc,        \* pc[c]: the statement context c is at
    event,     \* event[c]: the event of its invocation
    locals,    \* locals[c]: the local variables of its invocation
    outcome,   \* outcome[c]: what the invocation gave its caller
    stdout,    \* stdout[c]: the lines the invocation has printed
    faults     \* faults[c]: the log writes of the invocation that failed

vars == <<pc, event, locals, outcome, stdout, faults>>

\* A local variable no statement has assigned yet.
Unbound == [k |-> "unbound"]
\* time.time(): a float, kept in clock units.
Time(t) == [k |-> "time", n |-> t]

NoLocals ==
    [start_time |-> Unbound, body |-> Unbound, url |-> Unbound,
     domain |-> Unbound, processing_time |-> Unbound, response |-> Unbound,
     e |-> NoExc]

Pending == [kind |-> "pending", v |-> None, e |-> NoExc]
Returned(x) == [kind |-> "return", v |-> x, e |-> NoExc]
Raised(e) == [kind |-> "raise", v |-> None, e |-> e]

Init ==
    /\ pc = [c \in Contexts |-> "idle"]
    /\ event = [c \in Contexts |-> None]
    /\ locals = [c \in Contexts |-> NoLocals]
    /\ outcome = [c \in Contexts |-> Pending]
    /\ stdout = [c \in Contexts |-> <<>>]
    /\ faults = [c \in Contexts |-> {}]

(***************************************************************************)
(* handler, statement by statement                                         *)
(***************************************************************************)
\* The invocation of context c ends: its caller gets o, its frame is gone.
Finish(c, o) ==
    /\ outcome' = [outcome EXCEPT ![c] = o]
    /\ locals' = [locals EXCEPT ![c] = NoLocals]
    /\ pc' = [pc EXCEPT ![c] = "done"]

\* handler(ev, context) is called in a context that runs no invocation.
Invoke(c, ev) ==
    /\ pc[c] \in {"idle", "done"}
    /\ pc' = [pc EXCEPT ![c] = "log_event"]
    /\ event' = [event EXCEPT ![c] = ev]
    /\ locals' = [locals EXCEPT ![c] = NoLocals]
    /\ outcome' = [outcome EXCEPT ![c] = Pending]
    /\ stdout' = [stdout EXCEPT ![c] = <<>>]
    /\ faults' = [faults EXCEPT ![c] = {}]

\* Line 36, outside the try: print(f"... {json.dumps(event)}").  Either
\* json.dumps or the write may raise, and nothing catches it.  sink holds
\* the ways a write to standard output can end: TRUE, the line is written,
\* FALSE, print raises.
LogEvent(c, sink) ==
    /\ pc[c] = "log_event"
    /\ LET d == Dumps(event[c])
       IN  IF ~d.ok
           THEN /\ Finish(c, Raised(NotSerializable))
                /\ faults' = [faults EXCEPT ![c] = @ \cup {"event"}]
                /\ UNCHANGED stdout
           ELSE \E written \in sink :
                  IF written
                  THEN /\ stdout' = [stdout EXCEPT ![c] =
                             Append(@, <<W("ML Lambda invoked with event: ")>> \o d.text)]
                       /\ pc' = [pc EXCEPT ![c] = "start"]
                       /\ UNCHANGED <<locals, outcome, faults>>
                  ELSE /\ Finish(c, Raised(WriteError))
                       /\ faults' = [faults EXCEPT ![c] = @ \cup {"event"}]
                       /\ UNCHANGED stdout
    /\ UNCHANGED event

\* Line 38: start_time = time.time().
StartTimer(c) ==
    /\ pc[c] = "start"
    /\ \E now \in Clock :
         locals' = [locals EXCEPT ![c].start_time = Time(now)]
    /\ pc' = [pc EXCEPT ![c] = "parse"]
    /\ UNCHANGED <<event, outcome, stdout, faults>>

\* Lines 40-50: resolve the body, read url and domain, validate.
ParseInput(c) ==
    /\ pc[c] = "parse"
    /\ LET b == ResolveBody(event[c])
           u == Field(b.val, "url")
           d == Field(b.val, "domain")
       IN  IF ~b.ok
           THEN /\ locals' = [locals EXCEPT ![c].e = b.exc]
                /\ pc' = [pc EXCEPT ![c] = "except"]
                /\ UNCHANGED outcome
           ELSE IF ~u.ok
           THEN /\ locals' = [locals EXCEPT ![c].body = b.val, ![c].e = u.exc]
                /\ pc' = [pc EXCEPT ![c] = "except"]
                /\ UNCHANGED outcome
           ELSE IF Missing(u.val, d.val)
           THEN Finish(c, Returned(BadRequest))
           ELSE /\ locals' = [locals EXCEPT ![c].body = b.val,
                                            ![c].url = u.val,
                                            ![c].domain = d.val]
                /\ pc' = [pc EXCEPT ![c] = "measure"]
                /\ UNCHANGED outcome
    /\ UNCHANGED <<event, stdout, faults>>

\* Line 59: processing_time = int((time.time() - start_time) * 1000).
Measure(c) ==
    /\ pc[c] = "measure"
    /\ \E now \in Clock :
         locals' = [locals EXCEPT ![c].processing_time =
                        IntV(Elapsed(locals[c].start_time.n, now))]
    /\ pc' = [pc EXCEPT ![c] = "respond"]
    /\ UNCHANGED <<event, outcome, stdout, faults>>

\* Lines 61-75: build the response and print it, inside the try.
LogResponse(c, sink) ==
    /\ pc[c] = "respond"
    /\ LET response == PlaceholderResponse(locals[c].processing_time)
       IN  \E written \in sink :
             IF written
             THEN /\ stdout' = [stdout EXCEPT ![c] =
                        Append(@, <<W("ML Lambda response: ")>> \o Dumps(response).text)]
                  /\ locals' = [locals EXCEPT ![c].response = response]
                  /\ pc' = [pc EXCEPT ![c] = "return"]
                  /\ UNCHANGED faults
             ELSE /\ locals' = [locals EXCEPT ![c].response = response,
                                              ![c].e = WriteError]
                  /\ faults' = [faults EXCEPT ![c] = @ \cup {"response"}]
                  /\ pc' = [pc EXCEPT ![c] = "except"]
                  /\ UNCHANGED stdout
    /\ UNCHANGED <<event, outcome>>

\* Lines 77-81: return the 200 envelope.
ReturnOk(c) ==
    /\ pc[c] = "return"
    /\ Finish(c, Returned(OkEnvelope(locals[c].response)))
    /\ UNCHANGED <<event, stdout, faults>>

\* Lines 83-84: except Exception as e: print(f"Error in ML Lambda: {str(e)}").
\* A write that raises here raises out of handler.
LogError(c, sink) ==
    /\ pc[c] = "except"
    /\ \E written \in sink :
         IF written
         THEN /\ stdout' = [stdout EXCEPT ![c] =
                    Append(@, <<W("Error in ML Lambda: ")>> \o StrOf(locals[c].e).text)]
              /\ pc' = [pc EXCEPT ![c] = "fallback"]
              /\ UNCHANGED <<locals, outcome, faults>>
         ELSE /\ Finish(c, Raised(WriteError))
              /\ faults' = [faults EXCEPT ![c] = @ \cup {"error"}]
              /\ UNCHANGED stdout
    /\ UNCHANGED event

\* Lines 85-99: measure again and return the 500 envelope.
ReturnFallback(c) ==
    /\ pc[c] = "fallback"
    /\ \E now \in Clock :
         Finish(c, Returned(FallbackEnvelope(
                      IntV(Elapsed(locals[c].start_time.n, now)), locals[c].e)))
    /\ UNCHANGED <<event, stdout, faults>>

\* One statement of the invocation in context c.
Step(c, sink) ==
    \/ LogEvent(c, sink)
    \/ StartTimer(c)
    \/ ParseInput(c)
    \/ Measure(c)
    \/ LogResponse(c, sink)
    \/ ReturnOk(c)
    \/ LogError(c, sink)
    \/ ReturnFallback(c)

\* Standard output as the platform provides it: every write succeeds.
SinkUp == {TRUE}
\* Standard output that may refuse any write (a closed or broken pipe).
SinkFailing == BOOLEAN

\* One context, given any event, one invocation after the other, with a
\* standard output that may fail.
Next ==
    \/ \E ev \in Events : Invoke("c1", ev)
    \/ Step("c1", SinkFailing)

Spec == Init /\ [][Next]_vars

\* The same with a standard output that accepts every write.
NextSinkUp ==
    \/ \E ev \in Events : Invoke("c1", ev)
    \/ Step("c1", SinkUp)

SpecSinkUp == Init /\ [][NextSinkUp]_vars

\* Two contexts run concurrently, with a standard output that may fail.
NextPair ==
    \/ \E c \in Contexts, ev \in PairEvents : Invoke(c, ev)
    \/ \E c \in Contexts : Step(c, SinkFailing)

SpecPair == Init /\ [][NextPair]_vars

\* Two contexts run concurrently, with a standard output that accepts every
\* write.
NextPairSinkUp ==
    \/ \E c \in Contexts, ev \in PairEvents : Invoke(c, ev)
    \/ \E c \in Contexts : Step(c, SinkUp)

SpecPairSinkUp == Init /\ [][NextPairSinkUp]_vars

(***************************************************************************)
(* Vocabulary of the properties                                            *)
(***************************************************************************)
IsDone(c) == pc[c] = "done"
HasReturned(c) == pc[c] = "done" /\ outcome[c].kind = "return"
Envelope(c) == outcome[c].v
StatusOf(c) == Get(Envelope(c), "statusCode")
\* The body of the returned envelope, decoded.
DecodedBody(c) == Loads(Get(Envelope(c), "body").text)

\* The event carries a request: it is a mapping of JSON values, and a string
\* body in it decodes to a mapping.
CarriesRequest(ev) ==
    /\ ev.k = "dict"
    /\ Dumps(ev).ok
    /\ Get(ev, "body").k = "str" =>
         /\ Loads(Get(ev, "body").text).ok
         /\ Loads(Get(ev, "body").text).val.k = "dict"

\* Where the request fields are: in the decoded string body, or directly in
\* the event.
RequestOf(ev) ==
    IF Get(ev, "body").k = "str" THEN Loads(Get(ev, "body").text).val ELSE ev

\* A field that is missing (get gives None) or empty.
Empty(x) == x \in {None, Str(<<>>), List(<<>>), Dict(<<>>)}
NonEmptyString(x) == x.k = "str" /\ x.text # <<>>

MissingField(ev) ==
    /\ CarriesRequest(ev)
    /\ \/ Empty(Get(RequestOf(ev), "url"))
       \/ Empty(Get(RequestOf(ev), "domain"))

ValidRequest(ev) ==
    /\ CarriesRequest(ev)
    /\ NonEmptyString(Get(RequestOf(ev), "url"))
    /\ NonEmptyString(Get(RequestOf(ev), "domain"))

\* A number in [0.0, 1.0].
InUnitInterval(x) ==
    \/ x.k = "float" /\ 0 <= x.n /\ x.n <= 10
    \/ x.k = "int" /\ 0 <= x.n /\ x.n <= 1

AssessmentKeys == {"riskScore", "confidence", "source", "modelVersion"}

\* The body has every field of a risk assessment and a processingTime.
HasAssessment(b) ==
    /\ b.k = "dict"
    /\ \A key \in AssessmentKeys \cup {"threats", "processingTime"} : HasKey(b, key)
    /\ Get(b, "threats").k = "dict"
    /\ \A key \in {"phishing", "malware", "social"} : HasKey(Get(b, "threats"), key)

\* The fields two answers to one request must agree on.
Assessment(b) ==
    [key \in AssessmentKeys \cup {"threats"} |-> Get(b, key)]

(***************************************************************************)
(* Properties                                                              *)
(***************************************************************************)

\* C1: handler never raises to its caller: every invocation, whatever the
\* event, ends by returning a response envelope.
C1_NeverRaises ==
    \A c \in Contexts : IsDone(c) => outcome[c].kind = "return"

C3_ValidIs200Or500 ==
    \A c \in Contexts :
        (HasReturned(c) /\ ValidRequest(event[c])) =>
            /\ StatusOf(c) \in {IntV(200), IntV(500)}
            /\ DecodedBody(c).ok
            /\ HasAssessment(DecodedBody(c).val)

\* C3's case: a valid request in a string body was answered 500, the write
\* of its response line having failed.
C3_Witness ==
    \E c \in Contexts :
        /\ HasReturned(c)
        /\ event[c] = MkEvent(Str(BodyText(ExampleUrl, ExampleDomain)), Absent, Absent, Absent)
        /\ StatusOf(c) = IntV(500)
        /\ HasAssessment(DecodedBody(c).val)

\* C4: every response, the 400 and the 500 included, carries a
\* processingTime in its body, an integer >= 0, for every pair of clock
\* readings.
C4_ProcessingTimeAlways ==
    \A c \in Contexts :
        HasReturned(c) =>
            /\ DecodedBody(c).ok
            /\ DecodedBody(c).val.k = "dict"
            /\ HasKey(DecodedBody(c).val, "processingTime")
            /\ Get(DecodedBody(c).val, "processingTime").k = "int"
            /\ Get(DecodedBody(c).val, "processingTime").n >= 0

\* The second half of C4 alone: a processingTime that is present is never
\* negative.
ProcessingTimeNeverNegative ==
    \A c \in Contexts :
        (HasReturned(c) /\ HasKey(DecodedBody(c).val, "processingTime")) =>
            Get(DecodedBody(c).val, "processingTime").n >= 0

\* C5: every value handler returns is an envelope with statusCode in
\* {200, 400, 500}, headers (a mapping with Content-Type application/json)
\* and body (a serialized JSON string), the 400 response included.
C5_EnvelopeShape ==
    \A c \in Contexts :
        HasReturned(c) =>
            /\ Envelope(c).k = "dict"
            /\ StatusOf(c) \in {IntV(200), IntV(400), IntV(500)}
            /\ HasKey(Envelope(c), "headers")
            /\ Get(Envelope(c), "headers").k = "dict"
            /\ Get(Get(Envelope(c), "headers"), "Content-Type") = Text("application/json")
            /\ HasKey(Envelope(c), "body")
            /\ Get(Envelope(c), "body").k = "str"
            /\ DecodedBody(c).ok

\* The processing of the invocation failed for a reason other than a missing
\* field: the string body is malformed or decodes to no mapping, or a
\* statement after the validation raised.
ProcessingFailed(c) ==
    \/ /\ event[c].k = "dict"
       /\ Get(event[c], "body").k = "str"
       /\ \/ ~Loads(Get(event[c], "body").text).ok
          \/ Loads(Get(event[c], "body").text).val.k # "dict"
    \/ "response" \in faults[c]

\* The fixed fallback payload, with some processingTime and a non-empty
\* error description.
IsFallbackPayload(b) ==
    /\ b.k = "dict"
    /\ Get(b, "riskScore") = FloatV(5)
    /\ Get(b, "threats") =
           Dict(<< <<Key("phishing"), FloatV(5)>>,
                   <<Key("malware"), FloatV(0)>>,
                   <<Key("social"), FloatV(0)>> >>)
    /\ Get(b, "confidence") = FloatV(0)
    /\ Get(b, "source") = Text("fallback")
    /\ Get(b, "modelVersion") = Text("error")
    /\ HasKey(b, "processingTime")
    /\ NonEmptyString(Get(b, "error"))

\* C6: whenever processing fails for a reason other than a missing field,
\* handler returns statusCode 500 with the fixed fallback payload.  Stated
\* of the invocations whose inbound event was logged, the failures inside
\* the try block.
C6_FailureIs500Fallback ==
    \A c \in Contexts :
        (IsDone(c) /\ Dumps(event[c]).ok /\ "event" \notin faults[c]
           /\ ProcessingFailed(c)) =>
            /\ outcome[c].kind = "return"
            /\ StatusOf(c) = IntV(500)
            /\ DecodedBody(c).ok
            /\ IsFallbackPayload(DecodedBody(c).val)

\* What remains of C6 when the error line is written: a failed processing
\* that handler does answer is answered 500 with the fallback payload.
FailureAnsweredIsFallback ==
    \A c \in Contexts :
        (HasReturned(c) /\ ProcessingFailed(c)) =>
            /\ StatusOf(c) = IntV(500)
            /\ DecodedBody(c).ok
            /\ IsFallbackPayload(DecodedBody(c).val)

\* Two responses agree on everything but the timing.
SameApartFromTiming(c1, c2) ==
    /\ StatusOf(c1) = StatusOf(c2)
    /\ Assessment(DecodedBody(c1).val) = Assessment(DecodedBody(c2).val)

SameAnswerWhateverTheSink ==
    \A c1, c2 \in Contexts :
        (/\ HasReturned(c1) /\ HasReturned(c2)
         /\ event[c1] = event[c2]
         /\ ValidRequest(event[c1])) =>
            SameApartFromTiming(c1, c2)

\* C8: in every response, riskScore, confidence and each threats value lie
\* in [0.0, 1.0] and source is one of ml, rule_based, fallback; every
\* response that carries a risk assessment (the 200 and the 500) has source
\* "fallback".
C8_RangesAndSource ==
    \A c \in Contexts :
        HasReturned(c) =>
            LET b == DecodedBody(c).val
            IN  /\ b.k = "dict"
                /\ \A key \in {"riskScore", "confidence"} :
                       HasKey(b, key) => InUnitInterval(Get(b, key))
                /\ HasKey(b, "threats") =>
                       \A j \in 1..Len(Get(b, "threats").items) :
                           InUnitInterval(Get(b, "threats").items[j][2])
                /\ HasKey(b, "source") =>
                       Get(b, "source") \in
                           {Text("ml"), Text("rule_based"), Text("fallback")}
                /\ StatusOf(c) \in {IntV(200), IntV(500)} =>
                       /\ HasAssessment(b)
                       /\ Get(b, "source") = Text("fallback")

\* C8's case: a 200 response carrying the placeholder assessment.
C8_Witness ==
    \E c \in Contexts :
        /\ HasReturned(c)
        /\ StatusOf(c) = IntV(200)
        /\ Get(DecodedBody(c).val, "riskScore") = FloatV(5)
        /\ Get(DecodedBody(c).val, "source") = Text("fallback")

\* C9: a failed log write, of the inbound event or of the outbound response,
\* neither aborts the request nor changes the response: the invocation
\* answers as the invocation of the same event whose writes all succeed,
\* apart from processingTime.
C9_LoggingIsBestEffort ==
    \A c1, c2 \in Contexts :
        (/\ IsDone(c1) /\ HasReturned(c2)
         /\ event[c1] = event[c2]
         /\ faults[c1] # {} /\ faults[c1] \subseteq {"event", "response"}
         /\ faults[c2] = {}) =>
            /\ outcome[c1].kind = "return"
            /\ StatusOf(c1) = StatusOf(c2)
            /\ DecodedBody(c1).val.k = "dict"
            /\ \A key \in {"riskScore", "threats", "confidence", "source",
                           "modelVersion", "message", "error"} :
                   Get(DecodedBody(c1).val, key) = Get(DecodedBody(c2).val, key)

\* The event whose body is a structured object holding a valid url and
\* domain, and the event whose string body is "{}" beside a valid url and
\* domain.
StructuredBodyEvent ==
    MkEvent(MkEvent(Absent, ExampleUrl, ExampleDomain, Absent), Absent, Absent, Absent)
EmptyStringBodyEvent ==
    MkEvent(Str(<<P("{"), P("}")>>), ExampleUrl, ExampleDomain, Absent)

====
